---------------------------- MODULE Spec2Model ----------------------------
(***************************************************************************)
(* mdwc: word counts of the files matching glob patterns (src/main.rs).    *)
(*                                                                         *)
(* Text is a sequence of one-character strings.  A path is such a sequence *)
(* too, so that file_name(), extension() and starts_with("~$") are         *)
(* computed and not assumed; every path is valid UTF-8, so that            *)
(* path.to_str().unwrap() does not panic.  The file system is fixed for    *)
(* the length of one invocation.  The glob crate is outside the            *)
(* repository: what a pattern expands to is an input of process_files,     *)
(* drawn from the listings the glob iterator can yield over the modelled   *)
(* directory.  Spec writes to a writer that cannot fail (a Vec<u8>);       *)
(* SpecIO adds the failing write; SpecCount calls count_words_in_file      *)
(* alone on any short text, SpecDocx on word/document.xml documents.       *)
(***************************************************************************)
EXTENDS Integers, Sequences, FiniteSets, TLC

VARIABLES
    fs,                    \* path -> [isFile, data]: the disk
    args,                  \* run's args: <<binary name, pattern, ...>> (may be empty)
    pc,                    \* where run (or the direct caller) stands
    pattern,               \* index into args of the pattern being processed
    globbed,               \* what glob(pattern) yielded for the latest process_files call
    diag,                  \* eprintln! lines of the latest process_files call
    returned,              \* what process_files returned, one entry per pattern so far
    results,               \* the part of `results` the for loop has not consumed yet
    pattern_total_words,
    pattern_unique_words,
    grand_total_words,
    grand_total_unique,
    files_processed,
    writer,                \* the lines written to `writer`
    ret                    \* run's return value; "None" while it runs

vars == <<fs, args, pc, pattern, globbed, diag, returned, results,
          pattern_total_words, pattern_unique_words, grand_total_words,
          grand_total_unique, files_processed, writer, ret>>

---------------------------------------------------------------------------
(* Bounds *)

MaxPatterns == 2        \* pattern arguments per invocation
MaxTextLen == 4         \* characters of a text given to the counter directly

(* Program constants *)

FILENAME_WIDTH == 45

---------------------------------------------------------------------------
(* Characters *)

Letters == {"a", "A", "b", "B"}
Chars == Letters \cup {"1", " ", "<", ">"}

\* is_alphabetic taken for is_alphanumeric: a digit no longer separates
is_alphabetic_OrDigit(c) == c \in Letters \cup {"1"}

\* char::is_alphabetic
is_alphabetic(c) == c \in Letters

\* char lowercasing, as str::to_lowercase applies it to every character
lower_char(c) == CASE c = "A" -> "a" [] c = "B" -> "b" [] OTHER -> c

\* str::to_lowercase
to_lowercase(s) == [k \in 1..Len(s) |-> lower_char(s[k])]

\* every sequence over S of length at most n
SeqsUpTo(S, n) == UNION {[1..k -> S] : k \in 0..n}

Range(s) == {s[k] : k \in 1..Len(s)}


---------------------------------------------------------------------------
(* Paths *)

Str_txt == <<"t", "x", "t">>
Str_pdf == <<"p", "d", "f">>
Str_docx == <<"d", "o", "c", "x">>
LockMarker == <<"~", "$">>

Path_a == <<"a", ".">> \o Str_txt                                \* a.txt
Path_b == <<"b">>                                                \* b, a directory glob cannot read
Path_c == <<"c", ".">> \o Str_docx                               \* c.docx
Path_d == <<"d">>                                                \* d, a directory
Path_lock == <<"d", "/">> \o LockMarker \o <<"e", ".">> \o Str_docx  \* d/~$e.docx
Path_e == <<"e", ".">> \o Str_pdf                                \* e.pdf

\* index of the last occurrence of c in s, 0 when there is none
LastIndexOf(s, c) ==
    LET hits == {k \in 1..Len(s) : s[k] = c}
    IN  IF hits = {} THEN 0 ELSE CHOOSE k \in hits : \A j \in hits : j <= k

\* Path::file_name: the last component of the path
file_name(path) == SubSeq(path, LastIndexOf(path, "/") + 1, Len(path))

\* Path::extension: what follows the last "." of the file name; <<>> when the
\* name has no "." or only a leading one
extension(path) ==
    LET name == file_name(path)
        dot == LastIndexOf(name, ".")
    IN  IF dot <= 1 THEN <<>> ELSE SubSeq(name, dot + 1, Len(name))

\* str::starts_with
starts_with(s, prefix) ==
    /\ Len(s) >= Len(prefix)
    /\ SubSeq(s, 1, Len(prefix)) = prefix

---------------------------------------------------------------------------
(* The disk *)

\* data the decoder of the file's format rejects (not UTF-8, not a PDF, not a
\* ZIP archive holding word/document.xml)
Bad == <<"invalid">>

\* the directory run is given patterns over
RegularFiles == {Path_a, Path_e, Path_lock}
Directories == {Path_b, Path_d}
Paths == RegularFiles \cup Directories

DataPool(path) ==
    CASE path = Path_a -> {Bad, <<>>, <<"A">>, <<"a", "1", "A">>, <<"A", "b">>}
      [] path = Path_e -> {Bad, <<>>, <<"a", " ", "b">>}
      [] OTHER -> {<<>>}

Disks ==
    {d \in [Paths -> [isFile : BOOLEAN, data : UNION {DataPool(p) : p \in Paths}]] :
        \A p \in Paths : /\ d[p].isFile = (p \in RegularFiles)
                         /\ d[p].data \in DataPool(p)}

---------------------------------------------------------------------------
(* Extraction *)

Ok(v) == [ok |-> TRUE, val |-> v]
Err(e) == [ok |-> FALSE, val |-> e]

\* Regex "<[^>]+>" replace_all " ": scanning from position k, a "<" followed by
\* at least one non-">" character and then ">" becomes one space
RECURSIVE strip_tags(_, _)
strip_tags(xml, k) ==
    IF k > Len(xml) THEN <<>>
    ELSE LET closes == {j \in (k + 1)..Len(xml) : xml[j] = ">"}
             close == IF closes = {} THEN 0
                      ELSE CHOOSE j \in closes : \A i \in closes : j <= i
         IN  IF xml[k] = "<" /\ close >= k + 2
             THEN <<" ">> \o strip_tags(xml, close + 1)
             ELSE <<xml[k]>> \o strip_tags(xml, k + 1)

\* extract_docx_text: the archive's word/document.xml with the tags stripped
extract_docx_text(disk, file_path) ==
    IF file_path \notin DOMAIN disk \/ ~disk[file_path].isFile \/ disk[file_path].data = Bad
    THEN Err("docx")
    ELSE Ok(strip_tags(disk[file_path].data, 1))

\* pdf_extract::extract_text
extract_text(disk, file_path) ==
    IF file_path \notin DOMAIN disk \/ ~disk[file_path].isFile \/ disk[file_path].data = Bad
    THEN Err("pdf")
    ELSE Ok(disk[file_path].data)

\* fs::read_to_string
read_to_string(disk, file_path) ==
    IF file_path \notin DOMAIN disk \/ ~disk[file_path].isFile \/ disk[file_path].data = Bad
    THEN Err("io")
    ELSE Ok(disk[file_path].data)

extract_file_content(disk, file_path) ==
    LET ext == extension(file_path)
    IN  CASE ext = Str_pdf -> extract_text(disk, file_path)
          [] ext = Str_docx -> extract_docx_text(disk, file_path)
          [] OTHER -> read_to_string(disk, file_path)

---------------------------------------------------------------------------
(* Tokenizer / counter *)

\* str::split(|c| !c.is_alphabetic()): the pieces between separators, the empty
\* ones included; `cur` is the piece being read, `k` the position
RECURSIVE split(_, _, _)
split(contents, k, cur) ==
    IF k > Len(contents) THEN <<cur>>
    ELSE IF is_alphabetic(contents[k])
         THEN split(contents, k + 1, Append(cur, contents[k]))
         ELSE <<cur>> \o split(contents, k + 1, <<>>)

IsNonEmpty(s) == s # <<>>

\* .split(..).filter(|s| !s.is_empty()).map(|s| s.to_lowercase()).collect()
words_of(contents) ==
    LET kept == SelectSeq(split(contents, 1, <<>>), IsNonEmpty)
    IN  [k \in 1..Len(kept) |-> to_lowercase(kept[k])]

WordCount(file_path, unique_words, total_words) ==
    [file_path |-> file_path, unique_words |-> unique_words, total_words |-> total_words]

count_words_in_file(disk, file_path) ==
    LET contents == extract_file_content(disk, file_path)
    IN  IF ~contents.ok THEN contents
        ELSE LET words == words_of(contents.val)
             IN  Ok(WordCount(file_path, Cardinality(Range(words)), Len(words)))

---------------------------------------------------------------------------
(* File-set resolver *)

\* What the glob iterator yields over the modelled directory when everything
\* matches, in the order it yields it: Ok(path), or Err(path) (a GlobError) for
\* the directory it cannot read
Listing == <<Ok(Path_a), Err(Path_b), Ok(Path_d), Ok(Path_lock), Ok(Path_e)>>

\* the entries of Listing at the indices S, in Listing's order
RECURSIVE Pick(_, _)
Pick(S, k) ==
    IF k > Len(Listing) THEN <<>>
    ELSE (IF k \in S THEN <<Listing[k]>> ELSE <<>>) \o Pick(S, k + 1)

\* glob(pattern): Err for a malformed pattern, else the entries the pattern matches
GlobOutcomes ==
    {Err("PatternError")} \cup {Ok(Pick(S, 1)) : S \in SUBSET (1..Len(Listing))}

\* Path::is_file
is_file(disk, path) == path \in DOMAIN disk /\ disk[path].isFile

\* process_entry with the lock-file marker looked for at the start of the whole
\* path instead of the file name
process_entry_LockOnPath(disk, acc, entry) ==
    IF ~entry.ok
    THEN [acc EXCEPT !.diag = Append(@, <<"Glob error", entry.val>>)]
    ELSE LET path == entry.val
         IN  IF ~is_file(disk, path) THEN acc
             ELSE IF starts_with(path, LockMarker) THEN acc
             ELSE LET count == count_words_in_file(disk, path)
                  IN  IF count.ok
                      THEN [acc EXCEPT !.results = Append(@, count.val)]
                      ELSE [acc EXCEPT !.diag = Append(@, <<"Error processing", path>>)]

\* the body of process_files' for loop: acc is [results, diag]
process_entry(disk, acc, entry) ==
    IF ~entry.ok
    THEN [acc EXCEPT !.diag = Append(@, <<"Glob error", entry.val>>)]
    ELSE LET path == entry.val
         IN  IF ~is_file(disk, path) THEN acc
             ELSE IF starts_with(file_name(path), LockMarker) THEN acc
             ELSE LET count == count_words_in_file(disk, path)
                  IN  IF count.ok
                      THEN [acc EXCEPT !.results = Append(@, count.val)]
                      ELSE [acc EXCEPT !.diag = Append(@, <<"Error processing", path>>)]

RECURSIVE process_entries(_, _, _)
process_entries(disk, acc, entries) ==
    IF entries = <<>> THEN acc
    ELSE process_entries(disk, process_entry(disk, acc, Head(entries)), Tail(entries))

NoFilesFound == "No files found matching the pattern"

\* process_files, given what glob(pattern) yields: [ok, val, diag]
process_files(disk, g) ==
    IF ~g.ok THEN [ok |-> FALSE, val |-> g.val, diag |-> <<>>]
    ELSE LET acc == process_entries(disk, [results |-> <<>>, diag |-> <<>>], g.val)
         IN  IF acc.results = <<>>
             THEN [ok |-> FALSE, val |-> NoFilesFound, diag |-> acc.diag]
             ELSE [ok |-> TRUE, val |-> acc.results, diag |-> acc.diag]

---------------------------------------------------------------------------
(* Report lines *)

\* one writeln!: what the line is and the values it shows (format_number only
\* groups digits, the counts stay numbers here)
Line(tag, data) == [tag |-> tag, data |-> data]

Ellipsis == <<".", ".", ".">>

format_filename(name, max_len) ==
    IF Len(name) > max_len
    THEN SubSeq(name, 1, IF max_len >= 3 THEN max_len - 3 ELSE 0) \o Ellipsis
    ELSE name

\* (unique as f64 / total as f64) * 100.0 under "{:.1}": NaN for 0/0, inf for
\* x/0, else the tenths of a percent, ties to even (the f64 rounding of the
\* quotient itself is not modelled)
format_ratio(unique, total) ==
    IF total = 0
    THEN (IF unique = 0 THEN [kind |-> "NaN", tenths |-> 0]
                        ELSE [kind |-> "inf", tenths |-> 0])
    ELSE LET q == (unique * 1000) \div total
             r == (unique * 1000) % total
         IN  [kind |-> "number",
              tenths |-> IF 2 * r > total \/ (2 * r = total /\ q % 2 = 1)
                         THEN q + 1 ELSE q]

SupportedTypes == <<".txt", ".pdf", ".docx">>

UsageLines ==
    <<Line("usage", <<>>), Line("supported", SupportedTypes), Line("examples", <<>>),
      Line("example", <<"*.txt">>), Line("example", <<"*.pdf">>),
      Line("example", <<"*.docx">>), Line("example", <<"docs/*.{txt,pdf,docx}">>)>>

HeaderLines(pat) == <<Line("header", <<pat>>), Line("rule", <<>>)>>

FileLine(result) ==
    Line("file", <<format_filename(file_name(result.file_path), FILENAME_WIDTH),
                   result.unique_words, result.total_words>>)

SummaryLines(unique, total) == <<Line("rule", <<>>), Line("summary", <<unique, total>>)>>

ErrorLine(pat, e) == Line("error", <<pat, e>>)

GrandLines(files, unique, total) ==
    <<Line("bar", <<>>), Line("grand", <<files>>),
      Line("totals", <<unique, total, format_ratio(unique, total)>>), Line("bar", <<>>)>>

---------------------------------------------------------------------------
(* run *)

BinaryName == "mdwc"

\* <<binary name, pattern 1, ..., pattern n>>
ArgsWith(n) == [k \in 1..(n + 1) |-> IF k = 1 THEN BinaryName ELSE "pattern" \o ToString(k - 1)]

ArgLists == {<<>>} \cup {ArgsWith(n) : n \in 0..MaxPatterns}

Idle ==
    /\ pattern = 0
    /\ globbed = Ok(<<>>)
    /\ diag = <<>>
    /\ returned = <<>>
    /\ results = <<>>
    /\ pattern_total_words = 0
    /\ pattern_unique_words = {}
    /\ grand_total_words = 0
    /\ grand_total_unique = {}
    /\ files_processed = 0
    /\ writer = <<>>
    /\ ret = "None"

Init ==
    /\ fs \in Disks
    /\ args \in ArgLists
    /\ pc = "start"
    /\ Idle

Return(value) ==
    /\ ret' = value
    /\ pc' = "done"

\* args.len() < 1
NotEnoughArguments ==
    /\ pc = "start"
    /\ Len(args) < 1
    /\ Return("Err: Not enough arguments")
    /\ UNCHANGED <<fs, args, pattern, globbed, diag, returned, results,
                   pattern_total_words, pattern_unique_words, grand_total_words,
                   grand_total_unique, files_processed, writer>>

\* InvalidUsage without the "Supported file types" line
InvalidUsage_NoSupportedLine ==
    /\ pc = "start"
    /\ Len(args) >= 1
    /\ Len(args) < 2
    /\ writer' = writer \o <<UsageLines[1]>> \o SubSeq(UsageLines, 3, Len(UsageLines))
    /\ Return("Err: Invalid usage")
    /\ UNCHANGED <<fs, args, pattern, globbed, diag, returned, results,
                   pattern_total_words, pattern_unique_words, grand_total_words,
                   grand_total_unique, files_processed>>

\* args.len() < 2: the usage message
InvalidUsage ==
    /\ pc = "start"
    /\ Len(args) >= 1
    /\ Len(args) < 2
    /\ writer' = writer \o UsageLines
    /\ Return("Err: Invalid usage")
    /\ UNCHANGED <<fs, args, pattern, globbed, diag, returned, results,
                   pattern_total_words, pattern_unique_words, grand_total_words,
                   grand_total_unique, files_processed>>

\* the accumulators are set up and the loop over args[1..] begins
Begin ==
    /\ pc = "start"
    /\ Len(args) >= 2
    /\ grand_total_words' = 0
    /\ grand_total_unique' = {}
    /\ files_processed' = 0
    /\ pattern' = 2
    /\ pc' = "pattern"
    /\ UNCHANGED <<fs, args, globbed, diag, returned, results,
                   pattern_total_words, pattern_unique_words, writer, ret>>

\* process_files(pattern) returned Ok(results): header, fresh pattern accumulators
PatternOk(g) ==
    LET r == process_files(fs, g)
    IN  /\ pc = "pattern"
        /\ pattern <= Len(args)
        /\ r.ok
        /\ globbed' = g
        /\ diag' = r.diag
        /\ returned' = Append(returned, Ok(r.val))
        /\ writer' = writer \o HeaderLines(args[pattern])
        /\ pattern_total_words' = 0
        /\ pattern_unique_words' = {}
        /\ results' = r.val
        /\ pc' = "fold"
        /\ UNCHANGED <<fs, args, pattern, grand_total_words, grand_total_unique,
                       files_processed, ret>>

\* PatternErr with the error propagated (process_files(pattern)?) instead of matched
PatternErr_Propagates(g) ==
    LET r == process_files(fs, g)
    IN  /\ pc = "pattern"
        /\ pattern <= Len(args)
        /\ ~r.ok
        /\ globbed' = g
        /\ diag' = r.diag
        /\ returned' = Append(returned, Err(r.val))
        /\ Return("Err: " \o r.val)
        /\ UNCHANGED <<fs, args, pattern, results, pattern_total_words,
                       pattern_unique_words, grand_total_words, grand_total_unique,
                       files_processed, writer>>

\* process_files(pattern) returned Err(e): one error line, on to the next pattern
PatternErr(g) ==
    LET r == process_files(fs, g)
    IN  /\ pc = "pattern"
        /\ pattern <= Len(args)
        /\ ~r.ok
        /\ globbed' = g
        /\ diag' = r.diag
        /\ returned' = Append(returned, Err(r.val))
        /\ writer' = Append(writer, ErrorLine(args[pattern], r.val))
        /\ pattern' = pattern + 1
        /\ UNCHANGED <<fs, args, pc, results, pattern_total_words, pattern_unique_words,
                       grand_total_words, grand_total_unique, files_processed, ret>>

\* the accumulators one iteration of `for result in results` works on
Acc(ptw, puw, gtu, fp) ==
    [pattern_total_words |-> ptw, pattern_unique_words |-> puw,
     grand_total_unique |-> gtu, files_processed |-> fp]

\* fold_result with `pattern_total_words = result.total_words` for `+=`
fold_result_AssignTotal(disk, acc, result) ==
    LET contents == extract_file_content(disk, result.file_path)
        words == IF contents.ok THEN Range(words_of(contents.val)) ELSE {}
    IN  Acc(result.total_words,
            acc.pattern_unique_words \cup words,
            acc.grand_total_unique \cup words,
            acc.files_processed + 1)

\* fold_result with the pattern's set replaced by the file's words, not extended
fold_result_ReplaceUnique(disk, acc, result) ==
    LET contents == extract_file_content(disk, result.file_path)
        words == IF contents.ok THEN Range(words_of(contents.val)) ELSE {}
    IN  Acc(acc.pattern_total_words + result.total_words,
            words,
            acc.grand_total_unique \cup words,
            acc.files_processed + 1)

\* one iteration of `for result in results`, the line it writes apart
fold_result(disk, acc, result) ==
    LET contents == extract_file_content(disk, result.file_path)
        words == IF contents.ok THEN Range(words_of(contents.val)) ELSE {}
    IN  Acc(acc.pattern_total_words + result.total_words,
            acc.pattern_unique_words \cup words,
            acc.grand_total_unique \cup words,
            acc.files_processed + 1)

FoldFile ==
    /\ pc = "fold"
    /\ results # <<>>
    /\ LET result == Head(results)
           acc == fold_result(fs, Acc(pattern_total_words, pattern_unique_words,
                                      grand_total_unique, files_processed), result)
       IN  /\ pattern_total_words' = acc.pattern_total_words
           /\ pattern_unique_words' = acc.pattern_unique_words
           /\ grand_total_unique' = acc.grand_total_unique
           /\ files_processed' = acc.files_processed
           /\ writer' = Append(writer, FileLine(result))
    /\ results' = Tail(results)
    /\ UNCHANGED <<fs, args, pc, pattern, globbed, diag, returned, grand_total_words, ret>>

\* `grand_total_words = pattern_total_words` for `+=`
add_pattern_total_Assign(grand, pattern_total) == pattern_total

\* grand_total_words += pattern_total_words
add_pattern_total(grand, pattern_total) == grand + pattern_total

\* after the last result: the pattern summary, then the grand total of words
FinishPattern ==
    /\ pc = "fold"
    /\ results = <<>>
    /\ writer' = writer \o SummaryLines(Cardinality(pattern_unique_words), pattern_total_words)
    /\ grand_total_words' = add_pattern_total(grand_total_words, pattern_total_words)
    /\ pattern' = pattern + 1
    /\ pc' = "pattern"
    /\ UNCHANGED <<fs, args, globbed, diag, returned, results, pattern_total_words,
                   pattern_unique_words, grand_total_unique, files_processed, ret>>

\* `if files_processed >= 0`
grand_total_due_Always(files) == files >= 0

\* `if files_processed > 0`
grand_total_due(files) == files > 0

\* after the last pattern: the grand total block if a file was processed, Ok(())
Finish ==
    /\ pc = "pattern"
    /\ pattern > Len(args)
    /\ writer' = IF grand_total_due(files_processed)
                 THEN writer \o GrandLines(files_processed,
                                           Cardinality(grand_total_unique),
                                           grand_total_words)
                 ELSE writer
    /\ Return("Ok")
    /\ UNCHANGED <<fs, args, pattern, globbed, diag, returned, results,
                   pattern_total_words, pattern_unique_words, grand_total_words,
                   grand_total_unique, files_processed>>

Next ==
    \/ NotEnoughArguments
    \/ InvalidUsage
    \/ Begin
    \/ \E g \in GlobOutcomes : PatternOk(g)
    \/ \E g \in GlobOutcomes : PatternErr(g)
    \/ FoldFile
    \/ FinishPattern
    \/ Finish

Spec == Init /\ [][Next]_vars

---------------------------------------------------------------------------
(* run with a writer whose writes can fail: every writeln!(..)? may return *)
(* early with the io error                                                 *)

\* the write that fails is one of `lines`; those before it were written
FailIn(lines) == \E k \in 0..(Len(lines) - 1) : writer' = writer \o SubSeq(lines, 1, k)

WriteFail ==
    /\ ret = "None"
    /\ \/ /\ pc = "start"
          /\ Len(args) = 1
          /\ FailIn(UsageLines)
          /\ UNCHANGED <<globbed, diag, returned>>
       \/ /\ pc = "pattern"
          /\ pattern <= Len(args)
          /\ \E g \in GlobOutcomes :
                LET r == process_files(fs, g)
                IN  /\ globbed' = g
                    /\ diag' = r.diag
                    /\ returned' = Append(returned, IF r.ok THEN Ok(r.val) ELSE Err(r.val))
                    /\ FailIn(IF r.ok THEN HeaderLines(args[pattern])
                                      ELSE <<ErrorLine(args[pattern], r.val)>>)
       \/ /\ pc = "fold"
          /\ results # <<>>
          /\ FailIn(<<FileLine(Head(results))>>)
          /\ UNCHANGED <<globbed, diag, returned>>
       \/ /\ pc = "fold"
          /\ results = <<>>
          /\ FailIn(SummaryLines(Cardinality(pattern_unique_words), pattern_total_words))
          /\ UNCHANGED <<globbed, diag, returned>>
       \/ /\ pc = "pattern"
          /\ pattern > Len(args)
          /\ grand_total_due(files_processed)
          /\ FailIn(GrandLines(files_processed, Cardinality(grand_total_unique),
                               grand_total_words))
          /\ UNCHANGED <<globbed, diag, returned>>
    /\ Return("Err: io")
    /\ UNCHANGED <<fs, args, pattern, results, pattern_total_words, pattern_unique_words,
                   grand_total_words, grand_total_unique, files_processed>>

NextIO == Next \/ WriteFail

SpecIO == Init /\ [][NextIO]_vars

---------------------------------------------------------------------------
(* count_words_in_file called on its own, as the unit tests call it *)

CountPaths == {Path_a, Path_c, Path_e}

\* a disk whose files all hold the same data: any text up to MaxTextLen, or Bad
CountDisks ==
    {[p \in CountPaths |-> [isFile |-> TRUE, data |-> t]] :
        t \in SeqsUpTo(Chars, MaxTextLen) \cup {Bad}}

InitCount ==
    /\ fs \in CountDisks
    /\ args = <<>>
    /\ pc = "count"
    /\ Idle

\* results holds the WordCount returned, nothing on Err
CountFile ==
    /\ pc = "count"
    /\ \E file_path \in CountPaths :
          LET r == count_words_in_file(fs, file_path)
          IN  /\ results' = IF r.ok THEN <<r.val>> ELSE <<>>
              /\ ret' = IF r.ok THEN "Ok" ELSE "Err: " \o r.val
    /\ pc' = "counted"
    /\ UNCHANGED <<fs, args, pattern, globbed, diag, returned, pattern_total_words,
                   pattern_unique_words, grand_total_words, grand_total_unique,
                   files_processed, writer>>

NextCount == CountFile

SpecCount == InitCount /\ [][NextCount]_vars

---------------------------------------------------------------------------
(* count_words_in_file called on files holding a word/document.xml, as
   test_docx_extraction calls it on what create_docx_file wrote *)

MaxSegments == 3
MaxValueLen == 2

\* body text between tags: letters and spaces
TextRuns == SeqsUpTo({"B", " "}, MaxValueLen) \ {<<>>}

\* attribute values; XML allows ">" unescaped inside one
AttrValues == SeqsUpTo({"A", ">"}, MaxValueLen)

\* <b>, </b> and <b a='value'>
StartTag == <<"<", "b", ">">>
EndTag == <<"<", "/", "b", ">">>
AttrTag(value) == <<"<", "b", " ", "a", "=", "'">> \o value \o <<"'", ">">>

Segments == TextRuns \cup {StartTag, EndTag} \cup {AttrTag(value) : value \in AttrValues}

RECURSIVE Flatten(_)
Flatten(segments) ==
    IF segments = <<>> THEN <<>> ELSE Head(segments) \o Flatten(Tail(segments))

\* word/document.xml: tags and text runs in any order, up to n of them
Documents(n) == {Flatten(segments) : segments \in SeqsUpTo(Segments, n)}

\* a disk whose files all hold the same data: a document of up to n segments,
\* or Bad
DocxDisks(n) ==
    {[p \in CountPaths |-> [isFile |-> TRUE, data |-> xml]] :
        xml \in Documents(n) \cup {Bad}}

InitDocx ==
    /\ fs \in DocxDisks(MaxSegments)
    /\ args = <<>>
    /\ pc = "count"
    /\ Idle

NextDocx == CountFile

SpecDocx == InitDocx /\ [][NextDocx]_vars


---------------------------------------------------------------------------
(* Properties *)

\* the latest return of process_files
LastCall == returned[Len(returned)]

\* every FileRecord process_files has returned so far, as <<pattern, position>>
RecordIds == {<<k, j>> \in (1..Len(returned)) \X (1..Cardinality(RegularFiles)) :
                returned[k].ok /\ j <= Len(returned[k].val)}

RecordAt(id) == returned[id[1]].val[id[2]]

\* C1 as stated: unique_words <= total_words in every reachable state of run, for
\* every FileRecord, for the active PatternResult and for the GrandTotal.
C1_UniqueAtMostTotal_Everywhere ==
    /\ \A id \in RecordIds : RecordAt(id).unique_words <= RecordAt(id).total_words
    /\ Cardinality(pattern_unique_words) <= pattern_total_words
    /\ Cardinality(grand_total_unique) <= grand_total_words

\* C1 amended: unique_words <= total_words always holds of every FileRecord and of
\* the active PatternResult; of the GrandTotal it holds whenever no pattern is
\* being folded, and while one is, the unique words are bounded by
\* grand_total_words plus the words of the pattern folded so far.
C1_UniqueAtMostTotal ==
    /\ \A id \in RecordIds : RecordAt(id).unique_words <= RecordAt(id).total_words
    /\ Cardinality(pattern_unique_words) <= pattern_total_words
    /\ pc # "fold" => Cardinality(grand_total_unique) <= grand_total_words
    /\ pc = "fold" =>
         Cardinality(grand_total_unique) <= grand_total_words + pattern_total_words

\* a pattern is half folded: the words of its first file are in the unique set and
\* not yet in grand_total_words
C1_Witness ==
    /\ pc = "fold"
    /\ Len(LastCall.val) = 2
    /\ Len(results) = 1
    /\ Cardinality(grand_total_unique) > grand_total_words
    /\ Cardinality(pattern_unique_words) < pattern_total_words

\* the first two characters of the file name are the lock-file marker
IsLockName(path) ==
    LET name == file_name(path)
    IN  Len(name) >= 2 /\ name[1] = "~" /\ name[2] = "$"

\* a glob match that is a regular file, no lock file, and whose extraction succeeds
Usable(entry) ==
    /\ entry.ok
    /\ entry.val \in RegularFiles
    /\ ~IsLockName(entry.val)
    /\ extract_file_content(fs, entry.val).ok

\* C2: process_files returns exactly one record, in glob-yielded order, for each
\* glob match that is a regular file, is not named ~$.., and extracts; failing
\* files and glob errors are left out and cost no other candidate its record.
C2_OneRecordPerUsableMatch ==
    (Len(returned) > 0 /\ globbed.ok) =>
        LET usable == SelectSeq(globbed.val, Usable)
        IN  /\ LastCall.ok =>
                /\ Len(LastCall.val) = Len(usable)
                /\ \A k \in 1..Len(usable) :
                      /\ LastCall.val[k].file_path = usable[k].val
                      /\ LastCall.val[k] = count_words_in_file(fs, usable[k].val).val
            /\ ~LastCall.ok => usable = <<>>

\* everything matched, a.txt does not decode, the glob error and the lock file are
\* skipped, and e.pdf, the last candidate, still has its record
C2_Witness ==
    /\ Len(returned) > 0
    /\ globbed = Ok(Listing)
    /\ fs[Path_a].data = Bad
    /\ LastCall.ok
    /\ Len(LastCall.val) = 1
    /\ LastCall.val[1].file_path = Path_e
    /\ Len(diag) = 2

IsPatternLine(line) == line.tag \in {"header", "error"}

\* the header or error line of each pattern reported so far
PatternLines == SelectSeq(writer, IsPatternLine)

C3_NoMatch ==
    Len(returned) > 0 =>
        /\ LastCall.ok <=> (globbed.ok /\ SelectSeq(globbed.val, Usable) # <<>>)
        /\ (globbed.ok /\ ~LastCall.ok) => LastCall = Err(NoFilesFound)

C3_Reported ==
    /\ Len(PatternLines) = Len(returned)
    /\ \A k \in 1..Len(returned) :
          /\ PatternLines[k].tag = IF returned[k].ok THEN "header" ELSE "error"
          /\ PatternLines[k].data[1] = args[k + 1]
    /\ (pc = "done" /\ ret = "Ok") => Len(returned) = Len(args) - 1

C3_FailureStep ==
    (Len(returned') = Len(returned) + 1 /\ ~returned'[Len(returned')].ok) =>
        /\ grand_total_words' = grand_total_words
        /\ grand_total_unique' = grand_total_unique
        /\ files_processed' = files_processed
        /\ pc' = "pattern"
        /\ pattern' = pattern + 1
        /\ ret' = "None"

---------------------------------------------------------------------------

\* the pattern arguments supplied: args without the binary name
NumPatterns == IF Len(args) = 0 THEN 0 ELSE Len(args) - 1

\* the usage line and the list of supported extensions are in the output
UsageWritten ==
    /\ \E k \in DOMAIN writer : writer[k].tag = "usage"
    /\ \E k \in DOMAIN writer : writer[k].tag = "supported" /\ writer[k].data = SupportedTypes

NoWriteFailed == ret # "Err: io"

\* C4 as stated: writes never failing, run fails iff no pattern was supplied, and
\* whenever no pattern was supplied the usage message with the supported
\* extensions was written before it failed.
C4_UsageWheneverNoPattern ==
    (pc = "done" /\ NoWriteFailed) =>
        /\ ret # "Ok" <=> NumPatterns = 0
        /\ NumPatterns = 0 => UsageWritten

\* C4 amended: writes never failing, run fails iff no pattern was supplied; with
\* the binary name alone it has written the usage message with the supported
\* extensions and fails with "Invalid usage"; with empty args it fails with "Not
\* enough arguments" and has written nothing; with a pattern or more it returns Ok.
C4_FailsIffNoPattern ==
    (pc = "done" /\ NoWriteFailed) =>
        /\ ret # "Ok" <=> NumPatterns = 0
        /\ Len(args) = 1 => (ret = "Err: Invalid usage" /\ UsageWritten)
        /\ Len(args) = 0 => (ret = "Err: Not enough arguments" /\ writer = <<>>)
        /\ Len(args) >= 2 => ret = "Ok"

\* the binary name alone: usage written, failure returned
C4_Witness ==
    /\ pc = "done"
    /\ Len(args) = 1
    /\ ret = "Err: Invalid usage"
    /\ Len(writer) = Len(UsageLines)

\* C5: a grand-total block reported with grand total_words = 0 shows the unique
\* ratio as 0.0%, never a not-a-number value.
C5_ZeroTotalShowsZeroRatio ==
    \A k \in DOMAIN writer :
        (writer[k].tag = "totals" /\ writer[k].data[2] = 0) =>
            writer[k].data[3] = [kind |-> "number", tenths |-> 0]

IsOk(r) == r.ok

\* the returns of the patterns that succeeded
OkReturns == SelectSeq(returned, IsOk)

IsSummary(line) == line.tag = "summary"

\* the summary lines written so far, one per finished successful pattern
Summaries == SelectSeq(writer, IsSummary)

RECURSIVE SumTotals(_)
SumTotals(recs) ==
    IF recs = <<>> THEN 0 ELSE Head(recs).total_words + SumTotals(Tail(recs))

\* the distinct lowercased tokens of a file, from one extraction
TokensOnce(file_path) == Range(words_of(extract_file_content(fs, file_path).val))

UnionTokens(recs) == UNION {TokensOnce(recs[k].file_path) : k \in 1..Len(recs)}

RECURSIVE SumOverReturns(_)
SumOverReturns(rets) ==
    IF rets = <<>> THEN 0 ELSE SumTotals(Head(rets).val) + SumOverReturns(Tail(rets))

\* C6: each pattern summary shows the sum of its FileRecords' total_words and the
\* size of the union of its files' tokens; between patterns and at the end of run
\* grand_total_words is the sum over every FileRecord of every successful pattern
\* and grand_total_unique the union of those files' tokens, as a single pass that
\* threads the token set would give.
C6_TwoPassEqualsThreaded ==
    /\ \A k \in 1..Len(Summaries) :
          Summaries[k].data = <<Cardinality(UnionTokens(OkReturns[k].val)),
                                SumTotals(OkReturns[k].val)>>
    /\ pc \in {"pattern", "done"} =>
          /\ grand_total_words = SumOverReturns(OkReturns)
          /\ grand_total_unique =
                UNION {UnionTokens(OkReturns[k].val) : k \in 1..Len(OkReturns)}
          /\ files_processed = Cardinality(RecordIds)

\* two successful patterns of one file each, the files sharing the word "a"
C6_Witness ==
    /\ pc = "done"
    /\ ret = "Ok"
    /\ Len(OkReturns) = 2
    /\ OkReturns[1].val[1].file_path # OkReturns[2].val[1].file_path
    /\ grand_total_words = 4
    /\ Cardinality(grand_total_unique) = 2
    /\ Cardinality(TokensOnce(Path_a) \cap TokensOnce(Path_e)) = 1

---------------------------------------------------------------------------

\* the positions of `text` where a maximal run of letters starts
RunStarts(text) ==
    {k \in 1..Len(text) : text[k] \in Letters /\ (k = 1 \/ text[k - 1] \notin Letters)}

\* the maximal run of letters that starts at k, lowercased
RunAt(text, k) ==
    LET last == CHOOSE j \in k..Len(text) :
                    /\ \A i \in k..j : text[i] \in Letters
                    /\ j = Len(text) \/ text[j + 1] \notin Letters
    IN  to_lowercase(SubSeq(text, k, last))

\* the text count_words_in_file counted: what extraction gave for the file
CountedText == extract_file_content(fs, results[1].file_path).val

\* C7: total_words is the number of maximal runs of alphabetic characters of the
\* text (any other character, a digit too, separates; no empty token counts) and
\* unique_words the number of distinct runs after lowercasing; the empty text
\* gives {0, 0}, and unique_words = total_words exactly when all the lowercased
\* tokens differ.
C7_CountsAreAlphabeticRuns ==
    (pc = "counted" /\ results # <<>>) =>
        LET text == CountedText
            starts == RunStarts(text)
            count == results[1]
        IN  /\ count.total_words = Cardinality(starts)
            /\ count.unique_words = Cardinality({RunAt(text, k) : k \in starts})
            /\ text = <<>> => (count.total_words = 0 /\ count.unique_words = 0)
            /\ count.unique_words = count.total_words <=>
                  \A j, k \in starts : j # k => RunAt(text, j) # RunAt(text, k)

\* a digit separates two tokens that are the same word after lowercasing
C7_Witness ==
    /\ pc = "counted"
    /\ results # <<>>
    /\ CountedText = <<"a", "1", "A">>
    /\ results[1].total_words = 2
    /\ results[1].unique_words = 1

\* where the "GRAND TOTAL" line stands in the output
GrandAt == {k \in DOMAIN writer : writer[k].tag = "grand"}

\* C8: the grand-total block is reported iff at least one file of some pattern
\* was successfully processed, exactly once, and only after the header, file
\* lines and summary (or the error line) of every pattern.
C8_GrandTotalOnceAtTheEnd ==
    /\ Cardinality(GrandAt) <= 1
    /\ \A k \in GrandAt :
          /\ Len(PatternLines) = Len(args) - 1
          /\ Len(Summaries) = Len(OkReturns)
          /\ \A j \in DOMAIN writer :
                /\ j > k => writer[j].tag \in {"totals", "bar"}
                /\ writer[j].tag \in {"header", "rule", "file", "summary", "error"} => j < k
          /\ Cardinality({j \in DOMAIN writer : writer[j].tag = "file"})
                = Cardinality(RecordIds)
    /\ (pc = "done" /\ ret = "Ok") => (GrandAt # {} <=> RecordIds # {})
    /\ pc # "done" => GrandAt = {}

\* a pattern that succeeded, then one that failed, then the grand total
C8_Witness ==
    /\ pc = "done"
    /\ GrandAt # {}
    /\ Len(returned) = 2
    /\ returned[1].ok
    /\ ~returned[2].ok
    /\ writer[Len(writer) - 4].tag = "error"

\* the paths of the FileRecords returned so far
ProcessedPaths == {RecordAt(id).file_path : id \in RecordIds}

RECURSIVE SumOverPaths(_)
SumOverPaths(paths) ==
    IF paths = {} THEN 0
    ELSE LET path == CHOOSE q \in paths : TRUE
         IN  count_words_in_file(fs, path).val.total_words + SumOverPaths(paths \ {path})

\* C9: a file path is processed at most once in an invocation: a file matched by
\* several patterns counts once in files_processed and in the grand total_words.
C9_EachFileOnce ==
    (pc = "done" /\ ret = "Ok") =>
        /\ files_processed = Cardinality(ProcessedPaths)
        /\ grand_total_words = SumOverPaths(ProcessedPaths)

\* the most FileRecords any pattern returned
MostRecords ==
    LET lens == {Len(OkReturns[k].val) : k \in 1..Len(OkReturns)} \cup {0}
    IN  CHOOSE m \in lens : \A n \in lens : n <= m

\* recs in the order the ranking p (a permutation of 1..MostRecords) gives them
Reorder(recs, p) ==
    LET m == Len(recs)
    IN  [k \in 1..m |->
            recs[CHOOSE i \in 1..m : Cardinality({j \in 1..m : p[j] < p[i]}) = k - 1]]

\* the for loop over results, from the accumulators acc
RECURSIVE FoldAll(_, _)
FoldAll(acc, recs) ==
    IF recs = <<>> THEN acc ELSE FoldAll(fold_result(fs, acc, Head(recs)), Tail(recs))

\* run's loop over the patterns, on the returns rets taken in the order sigma and
\* each pattern's records in the order inner[k] ranks them
RECURSIVE RunFold(_, _, _, _, _)
RunFold(rets, sigma, inner, k, grand) ==
    IF k > Len(rets) THEN grand
    ELSE LET r == rets[sigma[k]]
         IN  IF ~r.ok THEN RunFold(rets, sigma, inner, k + 1, grand)
             ELSE LET acc == FoldAll(Acc(0, {}, grand.unique, grand.files),
                                     Reorder(r.val, inner[sigma[k]]))
                  IN  RunFold(rets, sigma, inner, k + 1,
                              [words |-> add_pattern_total(grand.words, acc.pattern_total_words),
                               unique |-> acc.grand_total_unique,
                               files |-> acc.files_processed])

\* C10: folding the files of a pattern in any order, and the patterns in any
\* order, gives the per-pattern summary and the grand total_words, unique-word
\* set and files_processed that the sequential order gave.
C10_OrderIndependent ==
    /\ \A k \in 1..Len(Summaries) : \A p \in Permutations(1..MostRecords) :
          LET acc == FoldAll(Acc(0, {}, {}, 0), Reorder(OkReturns[k].val, p))
          IN  Summaries[k].data =
                  <<Cardinality(acc.pattern_unique_words), acc.pattern_total_words>>
    /\ (pc = "fold" /\ results = <<>>) =>
          \A p \in Permutations(1..MostRecords) :
              LET acc == FoldAll(Acc(0, {}, {}, 0), Reorder(LastCall.val, p))
              IN  /\ pattern_unique_words = acc.pattern_unique_words
                  /\ pattern_total_words = acc.pattern_total_words
    /\ (pc = "done" /\ ret = "Ok") =>
          \A sigma \in Permutations(1..Len(returned)) :
          \A inner \in [1..Len(returned) -> Permutations(1..MostRecords)] :
              RunFold(returned, sigma, inner, 1, [words |-> 0, unique |-> {}, files |-> 0])
                  = [words |-> grand_total_words, unique |-> grand_total_unique,
                     files |-> files_processed]

\* two patterns whose results differ, the first with two files of different words
C10_Witness ==
    /\ pc = "done"
    /\ ret = "Ok"
    /\ Len(OkReturns) = 2
    /\ Len(OkReturns[1].val) = 2
    /\ Len(OkReturns[2].val) = 1
    /\ TokensOnce(Path_a) # TokensOnce(Path_e)
    /\ TokensOnce(Path_a) # {}
    /\ OkReturns[1].val[1].total_words # OkReturns[1].val[2].total_words

\* XML: the tag opened before position k ends at the first ">" that is outside a
\* quoted attribute value; 0 when the document ends first
RECURSIVE TagEnd(_, _, _)
TagEnd(xml, k, quoted) ==
    IF k > Len(xml) THEN 0
    ELSE IF xml[k] = "'" THEN TagEnd(xml, k + 1, ~quoted)
    ELSE IF xml[k] = ">" /\ ~quoted THEN k
    ELSE TagEnd(xml, k + 1, quoted)

\* the body text outside the tags, from position k on; each tag leaves a
\* separator, as a paragraph or run boundary does
RECURSIVE BodyText(_, _)
BodyText(xml, k) ==
    IF k > Len(xml) THEN <<>>
    ELSE LET end == IF xml[k] = "<" THEN TagEnd(xml, k + 1, FALSE) ELSE 0
         IN  IF end > 0 THEN <<" ">> \o BodyText(xml, end + 1)
             ELSE <<xml[k]>> \o BodyText(xml, k + 1)

\* C11: for every document, the word counts of a DOCX file equal the word counts
\* of its body text outside the tags: total_words is the number of alphabetic
\* runs of the body text and unique_words the number of distinct ones, so no
\* alphabetic run of the stripped text comes from tag markup.
C11_DocxCountsAreBodyCounts ==
    (pc = "counted" /\ results # <<>> /\ extension(results[1].file_path) = Str_docx) =>
        LET body == BodyText(fs[results[1].file_path].data, 1)
            starts == RunStarts(body)
            count == results[1]
        IN  /\ count.total_words = Cardinality(starts)
            /\ count.unique_words = Cardinality({RunAt(body, k) : k \in starts})

============================================================================
